---- MODULE Spec2Model ----
(***************************************************************************)
(* Model of the PDF steganography pair: the embedder (src/index.js) that   *)
(* splices a Flate-compressed image into a PDF as an unreferenced object,  *)
(* and the extractor (src/final_extract.js) that locates object 111,       *)
(* isolates its stream, inflates it and writes the recovered image.        *)
(*                                                                         *)
(* Buffers are sequences of byte values 0..255.  Offsets are 0-based as in *)
(* the JavaScript source; At and Subarray translate to TLA+ sequences.     *)
(***************************************************************************)
EXTENDS Integers, Sequences, FiniteSets, TLC

(***************************************************************************)
(* Bounds of the model: how many fragments are concatenated to form the    *)
(* original PDF, the image, and a modified.pdf that already lies on disk.  *)
(***************************************************************************)
MaxPdfFrags == 3
MaxImgFrags == 2
MaxExtFrags == 4

(***************************************************************************)
(* Byte literals of the source.                                            *)
(***************************************************************************)
\* "stream\n"
StreamMarker == <<115, 116, 114, 101, 97, 109, 10>>
\* "\nendstream"
EndstreamMarker == <<10, 101, 110, 100, 115, 116, 114, 101, 97, 109>>
\* "xref"
XrefMarker == <<120, 114, 101, 102>>
\* " 0 obj"
ObjSuffix == <<32, 48, 32, 111, 98, 106>>
\* "\n<< /Length "
HeaderLengthKey == <<10, 60, 60, 32, 47, 76, 101, 110, 103, 116, 104, 32>>
\* " /Filter /FlateDecode >>\nstream\n"
HeaderFilterTail == <<32, 47, 70, 105, 108, 116, 101, 114, 32, 47, 70, 108, 97, 116, 101, 68, 101, 99, 111, 100, 101, 32, 62, 62, 10, 115, 116, 114, 101, 97, 109, 10>>
\* "\nendstream\nendobj\n"
objFooter == <<10, 101, 110, 100, 115, 116, 114, 101, 97, 109, 10, 101, 110, 100, 111, 98, 106, 10>>

\* the object number the extractor looks for
ExpectedObjNum == 111
\* first byte of a zlib stream, 0x78
ZlibMagic == 120
\* the two JPEG magic bytes, 0xFF 0xD8
JpegMagic0 == 255
JpegMagic1 == 216

PdfPath == "2025.06.22 Assignment - SWE Internship.pdf"
ImagePath == "pdf_structure.jpg"
ModifiedPath == "modified.pdf"
RecoveredPath == "final_recovered.jpg"

(***************************************************************************)
(* Buffer primitives (Node.js Buffer semantics).                           *)
(***************************************************************************)
Min(S) == CHOOSE m \in S : \A n \in S : m <= n
Max(S) == CHOOSE m \in S : \A n \in S : m >= n

\* buf[i], 0-based
At(buf, i) == buf[i + 1]

Clamp(i, len) == IF i < 0 THEN 0 ELSE IF i > len THEN len ELSE i

\* buf.subarray(start, end): 0-based, end exclusive, indices clamped
Subarray(buf, start, end) ==
    LET s == Clamp(start, Len(buf))
        e == Clamp(end, Len(buf))
    IN  IF e <= s THEN <<>> ELSE SubSeq(buf, s + 1, e)

\* whether pat occurs in buf at 0-based offset i
OccursAt(buf, pat, i) ==
    /\ i >= 0
    /\ i + Len(pat) <= Len(buf)
    /\ \A k \in 1..Len(pat) : buf[i + k] = pat[k]

\* buf.indexOf(pat, byteOffset): first offset >= byteOffset, or -1.
\* A negative byteOffset counts from the end of the buffer.
IndexOf(buf, pat, byteOffset) ==
    LET from == IF byteOffset < 0
                THEN (IF Len(buf) + byteOffset < 0 THEN 0 ELSE Len(buf) + byteOffset)
                ELSE byteOffset
        hits == {i \in from..(Len(buf) - Len(pat)) : OccursAt(buf, pat, i)}
    IN  IF hits = {} THEN -1 ELSE Min(hits)

(***************************************************************************)
(* Decimal text <-> number.                                                *)
(***************************************************************************)
IsDigit(b) == b >= 48 /\ b <= 57

\* `${n}` for a non-negative integer: its decimal digits as bytes
RECURSIVE NumToString(_)
NumToString(n) ==
    IF n < 10 THEN <<48 + n>> ELSE NumToString(n \div 10) \o <<48 + (n % 10)>>

\* parseInt(digits, 10) for a run of decimal digits
RECURSIVE ParseInt(_)
ParseInt(digits) ==
    IF Len(digits) = 0 THEN 0
    ELSE 10 * ParseInt(SubSeq(digits, 1, Len(digits) - 1)) + (digits[Len(digits)] - 48)

(***************************************************************************)
(* zlib, restricted to the stored-block encoding that deflate emits for    *)
(* data it cannot shrink: 78 9C, one final stored block (01 LEN NLEN data) *)
(* and the big-endian Adler-32 of the data.                                *)
(***************************************************************************)
RECURSIVE AdlerA(_)
AdlerA(data) ==
    IF Len(data) = 0 THEN 1
    ELSE (AdlerA(SubSeq(data, 1, Len(data) - 1)) + data[Len(data)]) % 65521

RECURSIVE AdlerB(_)
AdlerB(data) ==
    IF Len(data) = 0 THEN 0
    ELSE (AdlerB(SubSeq(data, 1, Len(data) - 1)) + AdlerA(data)) % 65521

Adler32Bytes(data) ==
    <<AdlerB(data) \div 256, AdlerB(data) % 256, AdlerA(data) \div 256, AdlerA(data) % 256>>

\* zlib.deflateSync(data)
DeflateSync(data) ==
    <<ZlibMagic, 156, 1,
      Len(data) % 256, Len(data) \div 256,
      255 - (Len(data) % 256), 255 - (Len(data) \div 256)>>
    \o data \o Adler32Bytes(data)

\* whether zlib.inflateSync(s) returns (rather than throws)
InflateOk(s) ==
    /\ Len(s) >= 11
    /\ s[1] % 16 = 8
    /\ (s[1] * 256 + s[2]) % 31 = 0
    /\ s[3] = 1
    /\ s[4] + s[6] = 255
    /\ s[5] + s[7] = 255
    /\ Len(s) >= 11 + s[4] + 256 * s[5]
    /\ LET n == s[4] + 256 * s[5]
       IN  SubSeq(s, 8 + n, 11 + n) = Adler32Bytes(SubSeq(s, 8, 7 + n))

\* zlib.inflateSync(s) when it returns; bytes after the stream end are ignored
InflateSync(s) == SubSeq(s, 8, 7 + s[4] + 256 * s[5])

(***************************************************************************)
(* Embedder: src/index.js, embedImageInPDF.                                *)
(***************************************************************************)
\* number of consecutive decimal digits of text starting at offset i
RECURSIVE DigitRun(_, _)
DigitRun(text, i) ==
    IF i < Len(text) /\ IsDigit(At(text, i)) THEN 1 + DigitRun(text, i + 1) ELSE 0

\* length of the digit group of a match of /(\d+) 0 obj/ starting at offset i
\* (greedy, backtracking to shorter groups), or 0 when there is no match at i
RegexGroupAt(text, i) ==
    LET ks == {k \in 1..DigitRun(text, i) : OccursAt(text, ObjSuffix, i + k)}
    IN  IF ks = {} THEN 0 ELSE Max(ks)

\* objRegex.exec(text) with objRegex.lastIndex = lastIndex:
\* <<start of the leftmost match, length of its digit group>>, or <<-1, 0>>
RegexExec(text, lastIndex) ==
    LET starts == {i \in lastIndex..(Len(text) - 1) : RegexGroupAt(text, i) > 0}
    IN  IF starts = {} THEN <<-1, 0>> ELSE <<Min(starts), RegexGroupAt(text, Min(starts))>>

\* the loop keeping the number of the last match instead of the largest
RECURSIVE ScanObjNumsKeepLast(_, _, _)
ScanObjNumsKeepLast(text, lastIndex, maxObjNum) ==
    LET match == RegexExec(text, lastIndex)
    IN  IF match[1] = -1 THEN maxObjNum
        ELSE ScanObjNumsKeepLast(text, match[1] + match[2] + Len(ObjSuffix),
                                 ParseInt(Subarray(text, match[1], match[1] + match[2])))

\* the while loop over objRegex.exec: the largest parsed object number
RECURSIVE ScanObjNums(_, _, _)
ScanObjNums(text, lastIndex, maxObjNum) ==
    LET match == RegexExec(text, lastIndex)
    IN  IF match[1] = -1 THEN maxObjNum
        ELSE LET objNum == ParseInt(Subarray(text, match[1], match[1] + match[2]))
             IN  ScanObjNums(text, match[1] + match[2] + Len(ObjSuffix),
                             IF objNum > maxObjNum THEN objNum ELSE maxObjNum)

\* reusing the highest number found instead of the one after it
NextObjNumReused(pdfData) == ScanObjNums(pdfData, 0, 0)

\* const newObjNum = maxObjNum + 1
NextObjNum(pdfData) == ScanObjNums(pdfData, 0, 0) + 1

\* "<N> 0 obj"
ObjDeclaration(n) == NumToString(n) \o ObjSuffix

\* a header whose /Length also counts the newline that precedes "endstream"
ObjHeaderLengthOffByOne(n, compressed) ==
    ObjDeclaration(n) \o HeaderLengthKey
        \o NumToString(Len(compressed) + 1) \o HeaderFilterTail

\* objHeader
ObjHeader(n, compressed) ==
    ObjDeclaration(n) \o HeaderLengthKey
        \o NumToString(Len(compressed)) \o HeaderFilterTail

\* newObject = Buffer.concat([header, compressedImage, footer])
BuildObject(n, compressed) ==
    ObjHeader(n, compressed) \o compressed \o objFooter

\* pdfData.indexOf('xref')
FindXref(pdfData) == IndexOf(pdfData, XrefMarker, 0)

\* a splice whose tail starts one byte late
SpliceTailOffByOne(pdfData, object, pos) ==
    Subarray(pdfData, 0, pos) \o object \o Subarray(pdfData, pos + 1, Len(pdfData))

\* newPdfData = Buffer.concat([pdfData[0:xrefPos], newObject, pdfData[xrefPos:]])
Splice(pdfData, object, pos) ==
    Subarray(pdfData, 0, pos) \o object \o Subarray(pdfData, pos, Len(pdfData))

\* fs.writeFileSync(path, data)
WriteFile(fs, path, data) ==
    [n \in (DOMAIN fs) \cup {path} |-> IF n = path THEN data ELSE fs[n]]

FileExists(fs, path) == path \in DOMAIN fs

VARIABLES
    files,            \* the file system: file name -> bytes
    embedPc,          \* embedder: "start", "returned", "threw"
    compressedImage,  \* embedder locals
    newObjNum,
    newObject,
    xrefPos,
    pc,               \* extractor: "load", "locate", "isolate", "inflate", "exited"
    pdfData,          \* extractor locals
    obj111Start,
    streamStart,
    endstreamPos,
    streamData,
    report,           \* the outcome the extractor printed
    exitCode,         \* extractor exit status, -1 while running
    uncaught          \* extractor ended by an uncaught exception

embedVars == <<embedPc, compressedImage, newObjNum, newObject, xrefPos>>
extractVars == <<pc, pdfData, obj111Start, streamStart, endstreamPos, streamData,
                 report, exitCode, uncaught>>
vars == <<files, embedVars, extractVars>>

\* embedImageInPDF(PdfPath, ImagePath, ModifiedPath), run to completion
Embed ==
    /\ embedPc = "start"
    /\ IF ~FileExists(files, PdfPath) \/ ~FileExists(files, ImagePath)
       THEN /\ embedPc' = "threw"
            /\ UNCHANGED <<files, compressedImage, newObjNum, newObject, xrefPos>>
       ELSE LET imageData == files[ImagePath]
                compressed == DeflateSync(imageData)
                num == NextObjNum(files[PdfPath])
                object == BuildObject(num, compressed)
                pos == FindXref(files[PdfPath])
            IN  /\ compressedImage' = compressed
                /\ newObjNum' = num
                /\ newObject' = object
                /\ xrefPos' = pos
                /\ IF pos = -1
                   THEN /\ embedPc' = "threw"
                        /\ UNCHANGED files
                   ELSE /\ embedPc' = "returned"
                        /\ files' = WriteFile(files, ModifiedPath,
                                              Splice(files[PdfPath], object, pos))
    /\ UNCHANGED extractVars

(***************************************************************************)
(* Extractor: src/final_extract.js, top-level script.                      *)
(***************************************************************************)
\* pdfData.indexOf('111 0 obj')
FindObjStart(buf) == IndexOf(buf, ObjDeclaration(ExpectedObjNum), 0)

\* pdfData.indexOf('stream\n', obj111Start) + 7
FindStreamStart(buf, objStart) == IndexOf(buf, StreamMarker, objStart) + 7

\* pdfData.indexOf('\nendstream', streamStart)
FindEndstream(buf, start) == IndexOf(buf, EndstreamMarker, start)

\* the boundary check without its test of obj111Start
BoundariesMissingNoObjTest(objStart, start, end) == start = -1 \/ end = -1

\* if (obj111Start === -1 || streamStart === -1 || endstreamPos === -1)
BoundariesMissing(objStart, start, end) == objStart = -1 \/ start = -1 \/ end = -1

\* if (streamData[0] === 0x78); streamData[0] of an empty buffer is undefined
LooksZlib(data) == Len(data) > 0 /\ At(data, 0) = ZlibMagic

\* if (decompressed[0] === 0xFF && decompressed[1] === 0xD8)
LooksJpeg(data) ==
    /\ Len(data) > 0 /\ At(data, 0) = JpegMagic0
    /\ Len(data) > 1 /\ At(data, 1) = JpegMagic1

\* debugPath of the branch that finds no zlib header
NotZlibDebugPath == "raw_stream.bin"
\* debugPath of the catch block around inflateSync
InflateErrorDebugPath == "raw_stream.bin"
\* the non-JPEG branch reusing the raw-stream file name
NotJpegDebugPathReused == "raw_stream.bin"

\* debugPath of the branch that finds no JPEG header
NotJpegDebugPath == "mystery_data.bin"

\* exit status of a script that runs off its end
ExitAtEnd == 0
\* exit status of process.exit(1) and of an uncaught exception
ExitFailure == 1

\* const pdfData = fs.readFileSync('modified.pdf')
ExtractLoad ==
    /\ pc = "load"
    /\ IF FileExists(files, ModifiedPath)
       THEN /\ pdfData' = files[ModifiedPath]
            /\ pc' = "locate"
            /\ UNCHANGED <<exitCode, uncaught, report>>
       ELSE \* readFileSync throws, nothing catches it
            /\ pc' = "exited"
            /\ exitCode' = ExitFailure
            /\ uncaught' = TRUE
            /\ report' = "ENOENT: no such file or directory, open 'modified.pdf'"
            /\ UNCHANGED pdfData
    /\ UNCHANGED <<files, embedVars, obj111Start, streamStart, endstreamPos, streamData>>

\* the three indexOf calls and the boundary check
ExtractLocate ==
    /\ pc = "locate"
    /\ LET objStart == FindObjStart(pdfData)
           start == FindStreamStart(pdfData, objStart)
           end == FindEndstream(pdfData, start)
       IN  /\ obj111Start' = objStart
           /\ streamStart' = start
           /\ endstreamPos' = end
           /\ IF BoundariesMissing(objStart, start, end)
              THEN /\ report' = "Could not find Object 111 boundaries"
                   /\ exitCode' = ExitFailure
                   /\ pc' = "exited"
              ELSE /\ pc' = "isolate"
                   /\ UNCHANGED <<report, exitCode>>
    /\ UNCHANGED <<files, embedVars, pdfData, streamData, uncaught>>

\* the subarray and the zlib-header test, with its else branch
ExtractIsolate ==
    /\ pc = "isolate"
    /\ LET data == Subarray(pdfData, streamStart, endstreamPos)
       IN  /\ streamData' = data
           /\ IF LooksZlib(data)
              THEN /\ pc' = "inflate"
                   /\ UNCHANGED <<files, report, exitCode, uncaught>>
              ELSE /\ report' = "Data is not zlib compressed"
                   /\ pc' = "exited"
                   /\ IF Len(data) = 0
                      THEN \* streamData[0].toString(16) throws a TypeError
                           /\ uncaught' = TRUE
                           /\ exitCode' = ExitFailure
                           /\ UNCHANGED files
                      ELSE /\ files' = WriteFile(files, NotZlibDebugPath, data)
                           /\ exitCode' = ExitAtEnd
                           /\ UNCHANGED uncaught
    /\ UNCHANGED <<embedVars, pdfData, obj111Start, streamStart, endstreamPos>>

\* the try block: inflateSync, the JPEG test and the three writes
ExtractInflate ==
    /\ pc = "inflate"
    /\ IF InflateOk(streamData)
       THEN LET decompressed == InflateSync(streamData)
            IN  IF LooksJpeg(decompressed)
                THEN /\ files' = WriteFile(files, RecoveredPath, decompressed)
                     /\ report' = "SUCCESS! Hidden image successfully extracted!"
                ELSE /\ files' = WriteFile(files, NotJpegDebugPath, decompressed)
                     /\ report' = "Recovered data is not a JPEG image"
       ELSE /\ files' = WriteFile(files, InflateErrorDebugPath, streamData)
            /\ report' = "Decompression failed"
    /\ pc' = "exited"
    /\ exitCode' = ExitAtEnd
    /\ UNCHANGED <<embedVars, pdfData, obj111Start, streamStart, endstreamPos, streamData, uncaught>>

(***************************************************************************)
(* Inputs.  A buffer is a concatenation of a bounded number of fragments.  *)
(***************************************************************************)
RECURSIVE Concats(_, _)
Concats(frags, n) ==
    IF n = 0 THEN {<<>>}
    ELSE LET shorter == Concats(frags, n - 1)
         IN  shorter \cup {s \o f : s \in shorter, f \in frags}

\* "0", "1", "9 0 obj", "110 0 obj", "xref"
PdfFrags == {<<48>>, <<49>>, <<57>> \o ObjSuffix, <<49, 49, 48>> \o ObjSuffix, XrefMarker}
PdfInputs == Concats(PdfFrags, MaxPdfFrags)

\* FF D8, "\nendstream", "A"
ImgFrags == {<<JpegMagic0, JpegMagic1>>, EndstreamMarker, <<65>>}
ImgInputs == Concats(ImgFrags, MaxImgFrags)

\* "111 0 obj", "stream\n", "\nendstream", "A", "x" (0x78)
ExtFrags == {ObjDeclaration(ExpectedObjNum), StreamMarker, EndstreamMarker, <<65>>, <<ZlibMagic>>}
ExtInputs == Concats(ExtFrags, MaxExtFrags)

Init ==
    /\ \/ \E f \in PdfInputs, p \in ImgInputs :
             files = (PdfPath :> f) @@ (ImagePath :> p)
       \/ \E b \in ExtInputs : files = (ModifiedPath :> b)
    /\ embedPc = "start"
    /\ compressedImage = <<>>
    /\ newObjNum = 0
    /\ newObject = <<>>
    /\ xrefPos = -1
    /\ pc = "load"
    /\ pdfData = <<>>
    /\ obj111Start = -1
    /\ streamStart = -1
    /\ endstreamPos = -1
    /\ streamData = <<>>
    /\ report = ""
    /\ exitCode = -1
    /\ uncaught = FALSE

Next ==
    \/ Embed
    \/ ExtractLoad
    \/ ExtractLocate
    \/ ExtractIsolate
    \/ ExtractInflate

Spec == Init /\ [][Next]_vars

(***************************************************************************)
(* Properties.                                                             *)
(***************************************************************************)
\* the embedder ran to its return statement
EmbedReturned == embedPc = "returned"

\* the embedder read both inputs and assigned an object number
NumberAssigned ==
    embedPc # "start" /\ FileExists(files, PdfPath) /\ FileExists(files, ImagePath)

\* the extractor ended, having read the file the embedder wrote
ExtractedEmbedderOutput ==
    EmbedReturned /\ pc = "exited" /\ pdfData = files[ModifiedPath]

\* the extractor read modified.pdf and has searched it
Located ==
    /\ pc \in {"isolate", "inflate", "exited"}
    /\ report # "ENOENT: no such file or directory, open 'modified.pdf'"

\* the files only the extractor writes
ExtractorOutputs == {RecoveredPath, "raw_stream.bin", "mystery_data.bin"}
ExtractorWrote == ExtractorOutputs \cap DOMAIN files

\* the extractor found its boundaries and went on to take the slice
SliceTaken ==
    /\ pc \in {"inflate", "exited"}
    /\ obj111Start # -1 /\ streamStart # -1 /\ endstreamPos # -1

\* pat occurs nowhere in buf
Absent(buf, pat) == \A i \in 0..Len(buf) : ~OccursAt(buf, pat, i)

\* the first occurrence of pat in buf at an offset >= from is at offset i
FirstAt(buf, pat, from, i) ==
    /\ i >= from
    /\ OccursAt(buf, pat, i)
    /\ \A j \in from..(i - 1) : ~OccursAt(buf, pat, j)

\* the values of all "digits followed by ' 0 obj'" occurrences in buf
MatchedObjNums(buf) ==
    {ParseInt(SubSeq(buf, i, j)) :
        <<i, j>> \in {ij \in (1..Len(buf)) \X (1..Len(buf)) :
                        /\ ij[1] <= ij[2]
                        /\ \A k \in ij[1]..ij[2] : IsDigit(buf[k])
                        /\ OccursAt(buf, ObjSuffix, ij[2])}}

\* C1: round trip. When the extractor has run on the embedder's output, the
\* embedder assigned the object number the extractor looks up, and the image
\* starts with FF D8, the recovered-payload file holds exactly the image bytes.
C1_RoundTrip ==
    (ExtractedEmbedderOutput /\ newObjNum = ExpectedObjNum /\ LooksJpeg(files[ImagePath]))
        => /\ FileExists(files, RecoveredPath)
           /\ files[RecoveredPath] = files[ImagePath]

\* C2: splice non-interference. The output is the original with the built
\* object inserted at the first offset x of "xref": bytes before x are
\* unchanged, the object follows, every original byte at i >= x sits at
\* i + len(object), and the length grows by len(object).
C2_SpliceFrame ==
    EmbedReturned =>
        LET F == files[PdfPath]
            out == files[ModifiedPath]
            x == xrefPos
        IN  /\ FirstAt(F, XrefMarker, 0, x)
            /\ Len(out) = Len(F) + Len(newObject)
            /\ \A i \in 0..(x - 1) : At(out, i) = At(F, i)
            /\ \A k \in 0..(Len(newObject) - 1) : At(out, x + k) = At(newObject, k)
            /\ \A i \in x..(Len(F) - 1) : At(out, i + Len(newObject)) = At(F, i)

\* C2 witness: a splice with original bytes on both sides of the inserted
\* object and past the "xref" keyword itself
C2_Witness ==
    /\ EmbedReturned
    /\ xrefPos > 0
    /\ Len(files[PdfPath]) > xrefPos + Len(XrefMarker)

C4_ObjectGrammar ==
    NumberAssigned =>
        LET O == newObject
            lenAt == IndexOf(O, HeaderLengthKey, 0) + Len(HeaderLengthKey)
            declared == ParseInt(Subarray(O, lenAt, lenAt + DigitRun(O, lenAt)))
            bodyStart == IndexOf(O, StreamMarker, 0) + Len(StreamMarker)
            bodyEnd == Len(O) - Len(objFooter)
        IN  /\ O = NumToString(newObjNum) \o ObjSuffix \o HeaderLengthKey
                    \o NumToString(Len(compressedImage)) \o HeaderFilterTail
                    \o compressedImage \o objFooter
            /\ DigitRun(O, lenAt) > 0
            /\ declared = bodyEnd - bodyStart
            /\ Subarray(O, bodyStart, bodyEnd) = compressedImage
            /\ Subarray(O, bodyEnd, Len(O)) = objFooter

\* C4 witness: an object built around a compressed image of two-digit length
C4_Witness ==
    /\ NumberAssigned
    /\ Len(compressedImage) >= 20
    /\ Len(newObject) > Len(compressedImage)

\* C5: stream-boundary failure. A finished extractor run that found the
\* object declaration, but whose buffer has no "stream\n" at or after it or
\* no "\nendstream" at or after the stream start, reported the boundary
\* failure, ended non-zero, took no slice and wrote no file.
C5_StreamBoundaryFailure ==
    (Located /\ pc = "exited" /\ FindObjStart(pdfData) # -1
       /\ LET s == IndexOf(pdfData, StreamMarker, FindObjStart(pdfData))
          IN  s = -1 \/ IndexOf(pdfData, EndstreamMarker, s + Len(StreamMarker)) = -1)
        => /\ report = "Could not find Object 111 boundaries"
           /\ exitCode # 0
           /\ streamData = <<>>
           /\ ExtractorWrote = {}

\* C6: missing object. A finished extractor run whose buffer holds no
\* "111 0 obj" reported failure, ended non-zero and wrote no file at all.
C6_MissingObject ==
    (Located /\ Absent(pdfData, ObjDeclaration(ExpectedObjNum)))
        => /\ pc = "exited"
           /\ report = "Could not find Object 111 boundaries"
           /\ exitCode # 0
           /\ ExtractorWrote = {}

\* C6 witness: the object is missing although both stream markers are present
C6_Witness ==
    /\ Located
    /\ Absent(pdfData, ObjDeclaration(ExpectedObjNum))
    /\ ~Absent(pdfData, StreamMarker)
    /\ IndexOf(pdfData, EndstreamMarker, 6) # -1
    /\ exitCode = 1

\* C7: wrong-format outcome. A finished run whose isolated slice does not
\* start with 0x78 (the empty slice included) saved the raw slice to a
\* diagnostic file, did not end by an unhandled exception and did not write
\* the recovered-payload file.
C7_WrongFormat ==
    (SliceTaken /\ LET slice == Subarray(pdfData, streamStart, endstreamPos)
                   IN  slice = <<>> \/ At(slice, 0) # ZlibMagic)
        => /\ pc = "exited"
           /\ ~uncaught
           /\ FileExists(files, "raw_stream.bin")
           /\ files["raw_stream.bin"] = Subarray(pdfData, streamStart, endstreamPos)
           /\ ~FileExists(files, RecoveredPath)

\* C8: process outcome. A finished run either wrote the recovered-payload
\* file and exited clean, or ended with a non-zero status; the wrong-format,
\* decompression-error and non-JPEG paths end non-zero.
C8_ProcessOutcome ==
    pc = "exited" =>
        /\ exitCode = 0 <=> FileExists(files, RecoveredPath)
        /\ report \in {"Data is not zlib compressed", "Decompression failed",
                       "Recovered data is not a JPEG image"} => exitCode # 0

\* the diagnostic file name of each failure mode, by the message it reports
DebugPathOf(msg) ==
    CASE msg = "Data is not zlib compressed" -> NotZlibDebugPath
      [] msg = "Decompression failed" -> InflateErrorDebugPath
      [] msg = "Recovered data is not a JPEG image" -> NotJpegDebugPath

FailureReports ==
    {"Data is not zlib compressed", "Decompression failed",
     "Recovered data is not a JPEG image"}

\* C9 as stated: a finished run in one of the three failure modes has
\* written its own diagnostic file and no file that another mode, or the
\* success path, writes: the names are pairwise distinct.
C9_DistinctDiagnostics ==
    (pc = "exited" /\ ~uncaught /\ report \in FailureReports)
        => /\ FileExists(files, DebugPathOf(report))
           /\ \A other \in FailureReports \ {report} :
                  /\ DebugPathOf(other) # DebugPathOf(report)
                  /\ ~FileExists(files, DebugPathOf(other))
           /\ ~FileExists(files, RecoveredPath)

\* C9 amended: the two modes that keep the raw stream slice (not zlib-shaped,
\* decompression error) write it to the same file, raw_stream.bin; the
\* non-JPEG mode writes the decompressed bytes to mystery_data.bin; both
\* names differ from the recovered-payload path and a failed run writes no
\* file but the one of its mode, so the file name tells raw stream bytes
\* from decompressed bytes but not the two raw-stream modes apart.
C9_DiagnosticNames ==
    pc = "exited" =>
        /\ report = "Data is not zlib compressed"
              => /\ ExtractorWrote \subseteq {"raw_stream.bin"}
                 /\ FileExists(files, "raw_stream.bin")
                        => files["raw_stream.bin"] = streamData
        /\ report = "Decompression failed"
              => /\ ExtractorWrote = {"raw_stream.bin"}
                 /\ files["raw_stream.bin"] = streamData
        /\ report = "Recovered data is not a JPEG image"
              => /\ ExtractorWrote = {"mystery_data.bin"}
                 /\ files["mystery_data.bin"] = InflateSync(streamData)
        /\ report = "SUCCESS! Hidden image successfully extracted!"
              => ExtractorWrote = {RecoveredPath}

\* C9 witness: a run that ended in the non-JPEG mode
C9_Witness ==
    /\ pc = "exited"
    /\ report = "Recovered data is not a JPEG image"
    /\ FileExists(files, "mystery_data.bin")
    /\ Len(files["mystery_data.bin"]) > 0

====
